---------------------------- MODULE Spec2Model ----------------------------
(* Job lifecycle and result ingestion of the Amazon scraper server:       *)
(* server/controller/jobController.js, server/services/scraperService.js, *)
(* server/controllers/jobsWebhookController.js, the webhook router and    *)
(* the two mongoose schemas.                                               *)
EXTENDS Integers, Sequences, FiniteSets, Bags, TLC

(* ---------------------------- bounds ---------------------------------- *)
MaxChunks == 2
MaxCallbacks == 2
MaxRows == 2
MaxStartCalls == 3
MaxWorkers == 2

(* --------------------------- value sets -------------------------------- *)
JobIds == {"job_1", "job_2"}
UnknownId == "does-not-exist"
CallbackIds == JobIds \cup {UnknownId}

\* product names as character sequences
ProductNames == {<<"A", " ", " ", "b">>, <<"a", " ", "b">>}

Statuses == {"pending", "running", "completed", "failed", "stopped"}
Terminal == {"completed", "failed", "stopped"}
\* status values a callback body may carry
CallbackStatuses == {"running", "completed", "failed", "stopped"}

\* child-process exit codes: "null" is an exit by signal
ExitCodes == {"0", "1", "null"}

\* SCRAPER_SECRET of the environment, and x-scraper-secret header values
ConfiguredSecrets == {"", "s3cret"}
HeaderSecrets == {"missing", "s3cret", "wrong"}

ChunkText == <<"c1", "c2", "c3", "c4">>

\* rows a worker may write to its CSV file
CsvRows ==
  { [asin |-> "B1", title |-> "t1", success |-> "yes", page |-> "2", timestamp |-> ""],
    [asin |-> "B1", title |-> "t1", success |-> "YES", page |-> "",  timestamp |-> "t"],
    [asin |-> "B2", title |-> "",   success |-> "1",   page |-> "1", timestamp |-> ""],
    [asin |-> "",   title |-> "t2", success |-> "1",   page |-> "2", timestamp |-> ""],
    [asin |-> "B3", title |-> "t3", success |-> "NO",  page |-> "2", timestamp |-> ""],
    [asin |-> "B4", title |-> "t4", success |-> "1",   page |-> "x", timestamp |-> ""],
    [asin |-> "B5", title |-> "t5", success |-> "yes", page |-> "1", timestamp |-> "bad"] }

RECURSIVE SeqsUpTo(_, _)
SeqsUpTo(S, n) ==
  IF n = 0 THEN {<<>>}
  ELSE LET shorter == SeqsUpTo(S, n - 1)
       IN shorter \cup {Append(s, x) : s \in {t \in shorter : Len(t) = n - 1}, x \in S}

CsvContents == SeqsUpTo(CsvRows, MaxRows)

(* ------------------------- pure helpers -------------------------------- *)
Range(s) == {s[i] : i \in DOMAIN s}

Count(s, x) == Cardinality({i \in DOMAIN s : s[i] = x})

IsPrefix(s, t) == Len(s) <= Len(t) /\ SubSeq(t, 1, Len(s)) = s

Max(a, b) == IF a >= b THEN a ELSE b

\* the number NaN, which no page number equals
NaN == 0 - 1

\* Math.min in place of Math.max
MathMin(a, b) == IF a = NaN \/ b = NaN THEN NaN ELSE IF a <= b THEN a ELSE b

\* Math.max(a, b): NaN as soon as one argument is NaN
MathMax(a, b) == IF a = NaN \/ b = NaN THEN NaN ELSE Max(a, b)

\* parseInt of a page_number cell
ParseInt(s) ==
  IF s = "0" THEN 0 ELSE IF s = "1" THEN 1 ELSE IF s = "2" THEN 2 ELSE NaN

ToLowerCase(c) == IF c = "A" THEN "a" ELSE IF c = "B" THEN "b" ELSE c

IsSpace(c) == c = " "

\* productName.replace(/\s+/g, "_").toLowerCase()
RECURSIVE ReplaceSpaces(_)
ReplaceSpaces(s) ==
  IF s = <<>> THEN <<>>
  ELSE IF IsSpace(Head(s))
       THEN IF Len(s) > 1 /\ IsSpace(s[2])
            THEN ReplaceSpaces(Tail(s))
            ELSE <<"_">> \o ReplaceSpaces(Tail(s))
       ELSE <<Head(s)>> \o ReplaceSpaces(Tail(s))

SafeName(productName) ==
  LET r == ReplaceSpaces(productName) IN [i \in DOMAIN r |-> ToLowerCase(r[i])]

ToUpperCase(s) == IF s = "yes" \/ s = "Yes" THEN "YES" ELSE s

\* the success test reduced to truthiness of the cell
ScrapedSuccessTruthy(row) == row.success # ""

\* the success test of a CSV row
ScrapedSuccess(row) == ToUpperCase(row.success) = "YES" \/ row.success = "1"

\* parseInt(row.page_number || 1)
PageNumber(row) == IF row.page = "" THEN 1 ELSE ParseInt(row.page)

\* row.timestamp ? new Date(row.timestamp) : new Date()
ScrapedAt(row) ==
  IF row.timestamp = "" THEN "now"
  ELSE IF row.timestamp = "bad" THEN "Invalid Date"
  ELSE row.timestamp


(* --------------------------- log lines --------------------------------- *)
Line(k, v, n, m) == [k |-> k, v |-> v, n |-> n, m |-> m]

JobStartedLine == Line("Job started for", "", 0, 0)
PyOutLine(text) == Line("[PYOUT]", text, 0, 0)
PyErrLine(text) == Line("[PYERR]", text, 0, 0)
ExitFailLine(code) == Line("Failed with exit code", code, 0, 0)
CompletedLine(total, pages) == Line("Scraping completed", "", total, pages)
IngestErrorLine(msg) == Line("Error processing results", msg, 0, 0)
StatusLine(status) == Line("STATUS:", status, 0, 0)
ProgressLine(progress) == Line("PROGRESS:", progress, 0, 0)
LogLine(log) == Line("LOG:", log, 0, 0)
NoLine == Line("", "", 0, 0)

(* ------------------------ the job record store ------------------------- *)
NoError == [kind |-> "", detail |-> ""]
ExitCodeError(code) == [kind |-> "Exit code", detail |-> code]
IngestError(msg) == [kind |-> "Failed to process results", detail |-> msg]
SpawnError(msg) == [kind |-> "spawn", detail |-> msg]

EmptyResults == [totalScraped |-> 0, pagesProcessed |-> 0, csvFile |-> FALSE]

\* new ScrapingJob({jobId, productName, ..., status: "pending"}) with the
\* schema's defaults
NewJob(productName) ==
  [ productName |-> productName,
    status      |-> "pending",
    progress    |-> "p0",
    results     |-> EmptyResults,
    logs        |-> <<>>,
    error       |-> NoError,
    completedAt |-> FALSE ]

\* an update document: which paths it sets, and the line it pushes
NoUpdate ==
  [ hasStatus |-> FALSE, status |-> "",
    hasError |-> FALSE, error |-> NoError,
    hasCompletedAt |-> FALSE,
    hasResults |-> FALSE, results |-> EmptyResults,
    hasPush |-> FALSE, push |-> NoLine ]

\* $addToSet in place of $push: a line already stored is not stored again
PushLogAddToSet(logs, line) ==
  IF \E i \in DOMAIN logs : logs[i] = line THEN logs ELSE Append(logs, line)

\* $push with $position: 0: the line is stored ahead of the earlier ones
PushLogAtFront(logs, line) == <<line>> \o logs

\* $push: { logs: line }
PushLog(logs, line) == Append(logs, line)

ApplyUpdate(doc, u) ==
  [ doc EXCEPT
      !.status = IF u.hasStatus THEN u.status ELSE @,
      !.error = IF u.hasError THEN u.error ELSE @,
      !.completedAt = IF u.hasCompletedAt THEN TRUE ELSE @,
      !.results = IF u.hasResults THEN u.results ELSE @,
      !.logs = IF u.hasPush THEN PushLog(@, u.push) ELSE @ ]

\* updateMany({}, update): every stored document is updated
UpdateMany(store, jobId, u) ==
  [id \in DOMAIN store |-> ApplyUpdate(store[id], u)]

\* findOneAndUpdate with { upsert: true }: no match inserts a new document
FindOneAndUpdateUpsert(store, jobId, u) ==
  IF jobId \in DOMAIN store
  THEN [store EXCEPT ![jobId] = ApplyUpdate(@, u)]
  ELSE (jobId :> ApplyUpdate(NewJob(<< >>), u)) @@ store

\* ScrapingJob.findOneAndUpdate({ jobId }, update): no upsert, the first
\* matching document is updated atomically, no match changes nothing
FindOneAndUpdate(store, jobId, u) ==
  IF jobId \in DOMAIN store
  THEN [store EXCEPT ![jobId] = ApplyUpdate(@, u)]
  ELSE store

\* the updates the server issues
RunningUpdate ==
  [NoUpdate EXCEPT !.hasStatus = TRUE, !.status = "running",
                   !.hasPush = TRUE, !.push = JobStartedLine]

SpawnFailedUpdate(msg) ==
  [NoUpdate EXCEPT !.hasStatus = TRUE, !.status = "failed",
                   !.hasError = TRUE, !.error = SpawnError(msg),
                   !.hasCompletedAt = TRUE]

StdoutUpdate(text) == [NoUpdate EXCEPT !.hasPush = TRUE, !.push = PyOutLine(text)]

StderrUpdate(text) == [NoUpdate EXCEPT !.hasPush = TRUE, !.push = PyErrLine(text)]

ExitFailedUpdate(code) ==
  [NoUpdate EXCEPT !.hasStatus = TRUE, !.status = "failed",
                   !.hasCompletedAt = TRUE,
                   !.hasError = TRUE, !.error = ExitCodeError(code),
                   !.hasPush = TRUE, !.push = ExitFailLine(code)]

CompletedUpdate(total, pages, csvExists) ==
  [NoUpdate EXCEPT !.hasStatus = TRUE, !.status = "completed",
                   !.hasCompletedAt = TRUE,
                   !.hasResults = TRUE,
                   !.results = [totalScraped |-> total, pagesProcessed |-> pages,
                                csvFile |-> csvExists],
                   !.hasPush = TRUE, !.push = CompletedLine(total, pages)]

\* the catch block writing nothing but the log line
IngestFailureLogged(msg) ==
  [NoUpdate EXCEPT !.hasPush = TRUE, !.push = IngestErrorLine(msg)]

IngestFailedUpdate(msg) ==
  [NoUpdate EXCEPT !.hasStatus = TRUE, !.status = "failed",
                   !.hasError = TRUE, !.error = IngestError(msg),
                   !.hasCompletedAt = TRUE,
                   !.hasPush = TRUE, !.push = IngestErrorLine(msg)]

\* webhook updates; updatedAt and results.progress are not paths of the
\* ScrapingJob schema (its option is spelled timeStamps), so the strict
\* schema drops them from the update
\* a body without status gives the key status the value undefined, and
\* mongoose removes keys of value undefined from an update; any other value
\* is cast to String and written: findOneAndUpdate runs no validators, so
\* the enum of the schema is not consulted
StatusCallbackUpdate(status) ==
  [NoUpdate EXCEPT !.hasStatus = (status # "undefined"), !.status = status,
                   !.hasPush = TRUE, !.push = StatusLine(status)]

\* a progress update that also writes status "running"
ProgressCallbackMarksRunning(progress) ==
  [NoUpdate EXCEPT !.hasStatus = TRUE, !.status = "running",
                   !.hasPush = TRUE, !.push = ProgressLine(progress)]

ProgressCallbackUpdate(progress) ==
  [NoUpdate EXCEPT !.hasPush = TRUE, !.push = ProgressLine(progress)]

LogCallbackUpdate(log) ==
  [NoUpdate EXCEPT !.hasPush = TRUE, !.push = LogLine(log)]



(* ------------------------------ state ---------------------------------- *)
VARIABLES
  secretCfg,   \* SCRAPER_SECRET read when the webhook router is loaded
  files,       \* CSV files in output_files/csv: safe name -> rows
  jobs,        \* ScrapingJob collection: jobId -> document
  products,    \* Product collection: bag of documents
  activeJobs,  \* the registry Map of live child processes (its key set)
  pc,          \* per job: where its start / supervision / ingestion stands
  emitted,     \* per job: stream of each data chunk its worker has emitted
  exitCode,    \* per job: code passed to the close handler, "none" before
  parsed,      \* per job: the products array built by the CSV row handler
  ingestRuns,  \* per job: number of processScrapingResults calls begun
  ops,         \* store updates issued by the supervisor, not yet applied
  received,    \* number of webhook requests received
  pool,        \* webhook requests whose store update is not yet applied (bag)
  resp,        \* the webhook response sent last
  startCalls,  \* number of POST /api/jobs/start requests handled
  returned,    \* per jobId: number of startJob responses that returned it
  startResp,   \* the startJob response sent last
  live,        \* per job: number of its child processes that have not exited
  fileWriter,  \* per CSV file: the job whose worker wrote it last
  queryResp,   \* the getJobById response sent last
  escaped      \* whether a rejected promise has left a handler unhandled

startVars == << startCalls, returned, startResp >>

vars ==
  << secretCfg, fileWriter, files, jobs, products, activeJobs, pc, emitted, exitCode,
     parsed, ingestRuns, ops, received, pool, resp, startCalls, returned,
     startResp, live, queryResp, escaped >>

Op(j, kind, n, u) == [job |-> j, kind |-> kind, n |-> n, u |-> u]

Response(kind, jid, secret, code, success, matched) ==
  [ kind |-> kind, jobId |-> jid, secret |-> secret, code |-> code,
    success |-> success, matched |-> matched ]

NoResponse == Response("", "", "", 0, FALSE, FALSE)

\* res.status(code).json({ success, jobId, status })
StartResponse(code, success, jobId, status) ==
  [code |-> code, success |-> success, jobId |-> jobId, status |-> status]

NoStartResponse == StartResponse(0, FALSE, "", "")

\* the answer to GET /api/jobs/:jobId; code 0 with sent FALSE: the handler
\* has returned without sending any
QueryResponse(requested, code, sent) ==
  [requested |-> requested, code |-> code, sent |-> sent]

NoQueryResponse == QueryResponse("", 0, FALSE)

Init ==
  /\ secretCfg \in ConfiguredSecrets
  /\ files = << >>
  /\ jobs = << >>
  /\ products = EmptyBag
  /\ activeJobs = {}
  /\ pc = [j \in JobIds |-> "none"]
  /\ emitted = [j \in JobIds |-> << >>]
  /\ exitCode = [j \in JobIds |-> "none"]
  /\ parsed = [j \in JobIds |-> << >>]
  /\ ingestRuns = [j \in JobIds |-> 0]
  /\ ops = {}
  /\ received = 0
  /\ pool = EmptyBag
  /\ resp = NoResponse
  /\ startCalls = 0
  /\ returned = [j \in JobIds |-> 0]
  /\ startResp = NoStartResponse
  /\ live = [j \in JobIds |-> 0]
  /\ fileWriter = << >>
  /\ queryResp = NoQueryResponse
  /\ escaped = FALSE

(* --------------------------- Job Launcher ------------------------------ *)
\* request bodies of POST /api/jobs/start
Body(productName) == [productName |-> productName]
NoNameBody == [maxPages |-> "1"]
WhitespaceName == <<" ", " ">>
StartBodies ==
  {Body(n) : n \in {<<"a", " ", "b">>, << >>, WhitespaceName}} \cup {NoNameBody}

\* !productName
NameMissing(body) ==
  "productName" \notin DOMAIN body \/ body.productName = << >>

\* a collection without the unique index on jobId: save() never rejects
SaveRejectedNever(store, jobId) == FALSE

\* job.save() under the unique index on jobId: a second document with a
\* stored jobId is refused with a duplicate-key error
SaveRejected(store, jobId) == jobId \in DOMAIN store

\* startJob, j being the jobId it generates: validation, job.save(), then
\* startScrapingProcess up to its first await (the "running" update), then
\* the response
StartJob(j, body) ==
  /\ startCalls < MaxStartCalls
  /\ startCalls' = startCalls + 1
  /\ IF NameMissing(body)
     THEN /\ startResp' = StartResponse(400, FALSE, "", "")
          /\ UNCHANGED << jobs, ops, pc, returned >>
     ELSE IF SaveRejected(jobs, j)
     THEN /\ startResp' = StartResponse(500, FALSE, "", "")
          /\ UNCHANGED << jobs, ops, pc, returned >>
     ELSE /\ jobs' = (j :> NewJob(body.productName)) @@ jobs
          /\ ops' = ops \cup {Op(j, "running", 0, RunningUpdate)}
          /\ pc' = [pc EXCEPT ![j] = "starting"]
          /\ returned' = [returned EXCEPT ![j] = @ + 1]
          /\ startResp' = StartResponse(200, TRUE, j, "pending")
  /\ UNCHANGED << queryResp, escaped, live, secretCfg, fileWriter, files, products, activeJobs, emitted, exitCode,
                  parsed, ingestRuns, received, pool, resp >>

\* req.params.JobId in a handler mounted at /:jobId: the parameter is named
\* jobId, so the property JobId is undefined whatever id was requested
ParamJobId(requested) == "undefined"

\* ScrapingJob.findOne({ jobId }): whether a document matches; the filter
\* value undefined matches no document, every document having a jobId
FindOneMatches(store, jobId) == jobId \in DOMAIN store

\* getJobById: 404 when findOne returns null; otherwise the handler ends
\* without sending a response
GetJobById(requested) ==
  /\ queryResp' =
       IF FindOneMatches(jobs, ParamJobId(requested))
       THEN QueryResponse(requested, 0, FALSE)
       ELSE QueryResponse(requested, 404, TRUE)
  /\ UNCHANGED << escaped, startVars, live, secretCfg, fileWriter, files, jobs,
                  products, activeJobs, pc, emitted, exitCode, parsed,
                  ingestRuns, ops, received, pool, resp >>

(* ------------------------- Process Supervisor -------------------------- *)
\* the "running" update is applied; startScrapingProcess resumes: building
\* the argument vector or spawn() throws (catch block), or the child is
\* registered and its handlers are attached
Spawn(j, spawnOk) ==
  /\ pc[j] = "starting"
  /\ Op(j, "running", 0, RunningUpdate) \in ops
  /\ jobs' = FindOneAndUpdate(jobs, j, RunningUpdate)
  /\ IF spawnOk
     THEN /\ activeJobs' = activeJobs \cup {j}
          /\ live' = [live EXCEPT ![j] = @ + 1]
          /\ ops' = ops \ {Op(j, "running", 0, RunningUpdate)}
          /\ pc' = [pc EXCEPT ![j] = "spawned"]
     ELSE /\ activeJobs' = activeJobs
          /\ live' = live
          /\ ops' = (ops \ {Op(j, "running", 0, RunningUpdate)})
                      \cup {Op(j, "final", 0, SpawnFailedUpdate("TypeError"))}
          /\ pc' = [pc EXCEPT ![j] = "finalizing"]
  /\ UNCHANGED << queryResp, escaped, startVars, secretCfg, fileWriter, files, products, emitted, exitCode, parsed,
                  ingestRuns, received, pool, resp >>

\* the store rejects the "running" update: the await throws inside the try,
\* spawn() is never reached and the catch block issues the failure update.
\* When the store rejects that one too (storeBack false) the rejection leaves
\* startScrapingProcess, which startJob called without await or catch
RunningUpdateFails(j, storeBack) ==
  /\ pc[j] = "starting"
  /\ Op(j, "running", 0, RunningUpdate) \in ops
  /\ IF storeBack
     THEN /\ ops' = (ops \ {Op(j, "running", 0, RunningUpdate)})
                      \cup {Op(j, "final", 0, SpawnFailedUpdate("store error"))}
          /\ pc' = [pc EXCEPT ![j] = "finalizing"]
          /\ escaped' = escaped
     ELSE /\ ops' = ops \ {Op(j, "running", 0, RunningUpdate)}
          /\ pc' = [pc EXCEPT ![j] = "done"]
          /\ escaped' = TRUE
  /\ UNCHANGED << queryResp, startVars, live, secretCfg, fileWriter, files, jobs, products, activeJobs, emitted,
                  exitCode, parsed, ingestRuns, received, pool, resp >>

\* startScrapingProcess is exported: a caller runs it for a jobId whose child
\* is registered. The "running" update, then spawn() and activeJobs.set(),
\* which puts the new handle under the key the Map already holds
Respawn(j) ==
  /\ j \in activeJobs
  /\ pc[j] = "spawned"
  /\ live[j] < MaxWorkers
  /\ jobs' = FindOneAndUpdate(jobs, j, RunningUpdate)
  /\ activeJobs' = activeJobs \cup {j}
  /\ live' = [live EXCEPT ![j] = @ + 1]
  /\ UNCHANGED << queryResp, escaped, startVars, secretCfg, fileWriter, files, products, pc, emitted, exitCode,
                  parsed, ingestRuns, ops, received, pool, resp >>

ChunkUpdate(stream, n) ==
  IF stream = "stdout" THEN StdoutUpdate(ChunkText[n]) ELSE StderrUpdate(ChunkText[n])

\* stdout / stderr "data" handler: issues the $push and awaits it
EmitChunk(j, stream) ==
  /\ pc[j] = "spawned"
  /\ Len(emitted[j]) < MaxChunks
  /\ LET n == Len(emitted[j]) + 1
     IN /\ emitted' = [emitted EXCEPT ![j] = Append(@, stream)]
        /\ ops' = ops \cup {Op(j, "chunk", n, ChunkUpdate(stream, n))}
  /\ UNCHANGED << queryResp, escaped, startVars, live, secretCfg, fileWriter, files, jobs, products, activeJobs, pc, exitCode,
                  parsed, ingestRuns, received, pool, resp >>

\* the store applies one chunk's $push
ChunkApplied(op) ==
  /\ op \in ops
  /\ op.kind = "chunk"
  /\ jobs' = FindOneAndUpdate(jobs, op.job, op.u)
  /\ ops' = ops \ {op}
  /\ UNCHANGED << queryResp, escaped, startVars, live, secretCfg, fileWriter, files, products, activeJobs, pc, emitted,
                  exitCode, parsed, ingestRuns, received, pool, resp >>

\* the store rejects one chunk's $push: the awaited promise rejects inside
\* the async "data" listener, which has no try/catch, so the rejection leaves
\* the listener unhandled; the line is not stored and nothing retries it
ChunkFails(op) ==
  /\ op \in ops
  /\ op.kind = "chunk"
  /\ ops' = ops \ {op}
  /\ escaped' = TRUE
  /\ UNCHANGED << queryResp, startVars, live, secretCfg, fileWriter, files, jobs, products, activeJobs, pc, emitted,
                  exitCode, parsed, ingestRuns, received, pool, resp >>

\* the worker writes (or rewrites) its CSV file, named from the product name
WorkerWriteCsv(j, rows) ==
  /\ pc[j] = "spawned"
  /\ files' = (SafeName(jobs[j].productName) :> rows) @@ files
  /\ fileWriter' = (SafeName(jobs[j].productName) :> j) @@ fileWriter
  /\ UNCHANGED << queryResp, escaped, startVars, live, secretCfg, jobs, products, activeJobs, pc, emitted, exitCode,
                  parsed, ingestRuns, ops, received, pool, resp >>

\* !code in place of code === 0: an exit by signal (null) counts as success
IsZeroExitFalsy(code) == code = "0" \/ code = "null"

\* code === 0
IsZeroExit(code) == code = "0"

\* processScrapingResults up to its first await; dirExists: whether
\* output_files/csv exists when the file is not found (readdirSync)
IngestBegin(j, dirExists) ==
  LET csvFile == SafeName(jobs[j].productName)
  IN /\ ingestRuns' = [ingestRuns EXCEPT ![j] = @ + 1]
     /\ IF csvFile \in DOMAIN files
        THEN /\ pc' = [pc EXCEPT ![j] = "parsing"]
             /\ ops' = ops
        ELSE /\ pc' = [pc EXCEPT ![j] = "finalizing"]
             /\ ops' = ops \cup
                  { IF dirExists
                    THEN Op(j, "final", 0, CompletedUpdate(0, 0, FALSE))
                    ELSE Op(j, "final", 0, IngestFailedUpdate("ENOENT")) }

\* the directory exists as soon as it holds a file
DirStates == IF DOMAIN files = {} THEN BOOLEAN ELSE {TRUE}

\* the handler without activeJobs.delete: the entry stays
RegistryKeep(registry, jobId) == registry

\* activeJobs.delete(jobId)
RegistryDelete(registry, jobId) == registry \ {jobId}

\* the "close" handler of one child of job j; a second child's handler runs
\* after the first one's work has ended
Close(j, code, dirExists) ==
  /\ live[j] > 0
  /\ pc[j] \in {"spawned", "done"}
  /\ dirExists \in DirStates
  /\ live' = [live EXCEPT ![j] = @ - 1]
  /\ exitCode' = [exitCode EXCEPT ![j] = code]
  /\ activeJobs' = RegistryDelete(activeJobs, j)
  /\ IF IsZeroExit(code)
     THEN IngestBegin(j, dirExists)
     ELSE /\ ops' = ops \cup {Op(j, "final", 0, ExitFailedUpdate(code))}
          /\ pc' = [pc EXCEPT ![j] = "finalizing"]
          /\ UNCHANGED ingestRuns
  /\ UNCHANGED << queryResp, escaped, startVars, secretCfg, fileWriter, files, jobs, products, emitted, parsed, received,
                  pool, resp >>

(* ---------------------- Result Ingestion Pipeline ---------------------- *)
\* the product object built from one CSV row
ProductOfRow(j, productName, row) ==
  [ asin |-> row.asin, title |-> row.title, pageNumber |-> PageNumber(row),
    jobId |-> j, productName |-> productName, scrapedAt |-> ScrapedAt(row) ]

\* product.asin alone as the test of the required fields
HasAsinOnly(product) == product.asin # ""

\* product.asin && product.title
HasRequiredFields(product) == product.asin # "" /\ product.title # ""

\* the "data" handler applied to every row, in file order: the products array
RowsToProducts(j, productName, rows) ==
  LET acc[i \in 0..Len(rows)] ==
        IF i = 0 THEN << >>
        ELSE LET product == ProductOfRow(j, productName, rows[i])
             IN IF ScrapedSuccess(rows[i]) /\ HasRequiredFields(product)
                THEN Append(acc[i - 1], product)
                ELSE acc[i - 1]
  IN acc[Len(rows)]

\* pagesProcessed = Math.max(pagesProcessed, product.pageNumber), from 0
PagesProcessed(prods) ==
  LET acc[i \in 0..Len(prods)] ==
        IF i = 0 THEN 0 ELSE MathMax(acc[i - 1], prods[i].pageNumber)
  IN acc[Len(prods)]

\* totalScraped++ with every products.push
TotalScraped(prods) == Len(prods)

\* documents of prods at the indexes in S, as a bag
BagOfIndexes(prods, S) ==
  LET acc[i \in 0..Len(prods)] ==
        IF i = 0 THEN EmptyBag
        ELSE IF i \in S THEN acc[i - 1] (+) SetToBag({prods[i]}) ELSE acc[i - 1]
  IN acc[Len(prods)]

\* validation of a document against ProductSchema: pageNumber casts to
\* Number and scrapedAt to Date, which NaN and an invalid Date do not
ValidatesProduct(doc) == doc.pageNumber # NaN /\ doc.scrapedAt # "Invalid Date"

ValidIndexes(docs) == {i \in DOMAIN docs : ValidatesProduct(docs[i])}

\* Product.insertMany(docs, { ordered: false }) when the server refuses no
\* write: an unordered insertMany leaves out the documents that fail
\* validation and inserts the others. The Product schema declares no unique
\* index and the documents carry no _id, so equal (jobId, asin) pairs are
\* stored side by side and error 11000 does not arise
InsertMany(coll, docs) == coll (+) BagOfIndexes(docs, ValidIndexes(docs))

\* casting of the completing update: NaN does not cast to the Number path
\* results.pagesProcessed, and findOneAndUpdate rejects with a CastError
CastsUpdate(pages) == pages # NaN

\* the CSV stream ends (or fails): the rows are turned into products
ParseEnd(j, readOk) ==
  /\ pc[j] = "parsing"
  /\ LET csvFile == SafeName(jobs[j].productName)
         prods == RowsToProducts(j, jobs[j].productName, files[csvFile])
     IN IF ~readOk
        THEN /\ ops' = ops \cup {Op(j, "final", 0, IngestFailedUpdate("read error"))}
             /\ pc' = [pc EXCEPT ![j] = "finalizing"]
             /\ parsed' = parsed
        ELSE IF Len(prods) > 0
        THEN /\ parsed' = [parsed EXCEPT ![j] = prods]
             /\ pc' = [pc EXCEPT ![j] = "inserting"]
             /\ ops' = ops
        ELSE /\ ops' = ops \cup {Op(j, "final", 0, CompletedUpdate(0, 0, TRUE))}
             /\ pc' = [pc EXCEPT ![j] = "finalizing"]
             /\ parsed' = [parsed EXCEPT ![j] = prods]
  /\ UNCHANGED << queryResp, escaped, startVars, live, secretCfg, fileWriter, files, jobs, products, activeJobs, emitted,
                  exitCode, ingestRuns, received, pool, resp >>

\* the bulk insert returns, then the finalizing update is issued
InsertDone(j) ==
  /\ pc[j] = "inserting"
  /\ products' = InsertMany(products, parsed[j])
  /\ ops' = ops \cup
       { IF CastsUpdate(PagesProcessed(parsed[j]))
         THEN Op(j, "final", 0,
                 CompletedUpdate(TotalScraped(parsed[j]), PagesProcessed(parsed[j]),
                                 SafeName(jobs[j].productName) \in DOMAIN files))
         ELSE Op(j, "final", 0, IngestFailedUpdate("CastError")) }
  /\ pc' = [pc EXCEPT ![j] = "finalizing"]
  /\ UNCHANGED << queryResp, escaped, startVars, live, secretCfg, fileWriter, files, jobs, activeJobs, emitted, exitCode,
                  parsed, ingestRuns, received, pool, resp >>

\* the bulk insert throws an error other than a duplicate key after the
\* documents at the indexes in S were written: the catch block runs
InsertThrows(j, S) ==
  /\ pc[j] = "inserting"
  /\ S \subseteq ValidIndexes(parsed[j])
  /\ S # ValidIndexes(parsed[j])
  /\ products' = products (+) BagOfIndexes(parsed[j], S)
  /\ ops' = ops \cup {Op(j, "final", 0, IngestFailedUpdate("insert error"))}
  /\ pc' = [pc EXCEPT ![j] = "finalizing"]
  /\ UNCHANGED << queryResp, escaped, startVars, live, secretCfg, fileWriter, files, jobs, activeJobs, emitted, exitCode,
                  parsed, ingestRuns, received, pool, resp >>

\* Product.insertMany(docs, { ordered: false }) on a collection whose server
\* refuses the documents at the indexes in D with the duplicate-key error
\* 11000 (a unique index made outside the schema): the other documents that
\* validate are written
InsertManyUnordered(coll, docs, D) ==
  coll (+) BagOfIndexes(docs, ValidIndexes(docs) \ D)

\* the bulk insert throws error 11000 for the documents at the indexes in D:
\* the inner catch logs and falls through to the finalizing update
InsertDuplicates(j, D) ==
  /\ pc[j] = "inserting"
  /\ D # {}
  /\ D \subseteq ValidIndexes(parsed[j])
  /\ products' = InsertManyUnordered(products, parsed[j], D)
  /\ ops' = ops \cup
       { IF CastsUpdate(PagesProcessed(parsed[j]))
         THEN Op(j, "final", 0,
                 CompletedUpdate(TotalScraped(parsed[j]), PagesProcessed(parsed[j]),
                                 SafeName(jobs[j].productName) \in DOMAIN files))
         ELSE Op(j, "final", 0, IngestFailedUpdate("CastError")) }
  /\ pc' = [pc EXCEPT ![j] = "finalizing"]
  /\ UNCHANGED << queryResp, escaped, startVars, live, secretCfg, fileWriter, files, jobs, activeJobs, emitted, exitCode,
                  parsed, ingestRuns, received, pool, resp >>

\* the store applies the update that ends the job's supervision: the exit
\* failure, the spawn failure, the ingestion failure or the completion
FinalApplied(op) ==
  /\ op \in ops
  /\ op.kind = "final"
  /\ pc[op.job] = "finalizing"
  /\ jobs' = FindOneAndUpdate(jobs, op.job, op.u)
  /\ ops' = ops \ {op}
  /\ pc' = [pc EXCEPT ![op.job] = "done"]
  /\ UNCHANGED << queryResp, escaped, startVars, live, secretCfg, fileWriter, files, products, activeJobs, emitted, exitCode,
                  parsed, ingestRuns, received, pool, resp >>

(* ------------------------- HTTP callback channel ----------------------- *)
\* SCRAPER_SECRET && secret && secret !== SCRAPER_SECRET as the rejecting
\* test: a request without the header passes
VerifyScraperSecretIfPresent(configured, secret) ==
  ~(configured # "" /\ secret # "missing" /\ secret # configured)

\* !(SCRAPER_SECRET && secret !== SCRAPER_SECRET)
VerifyScraperSecret(configured, secret) ==
  ~(configured # "" /\ secret # configured)

CallbackKinds == {"status", "progress", "logs"}

CallbackPayloads(kind) ==
  IF kind = "status" THEN CallbackStatuses
  ELSE IF kind = "progress" THEN {"p1"}
  ELSE {"l1"}

\* status values of any request body: those of the enum, another string, and
\* none at all
StatusInputs == CallbackStatuses \cup {"bogus", "undefined"}

CallbackInputs(kind) ==
  IF kind = "status" THEN StatusInputs ELSE CallbackPayloads(kind)

CallbackUpdate(kind, payload) ==
  IF kind = "status" THEN StatusCallbackUpdate(payload)
  ELSE IF kind = "progress" THEN ProgressCallbackUpdate(payload)
  ELSE LogCallbackUpdate(payload)

Request(kind, jid, secret, payload) ==
  [kind |-> kind, jobId |-> jid, secret |-> secret, payload |-> payload]

\* a POST /:jobId/{status,progress,logs} arrives: verifyScraperSecret, then
\* the handler up to its await of findOneAndUpdate
CallbackReceived(kind, jid, secret, payload) ==
  /\ received < MaxCallbacks
  /\ payload \in CallbackInputs(kind)
  /\ received' = received + 1
  /\ IF VerifyScraperSecret(secretCfg, secret)
     THEN /\ pool' = pool (+) SetToBag({Request(kind, jid, secret, payload)})
          /\ resp' = resp
     ELSE /\ pool' = pool
          /\ resp' = Response(kind, jid, secret, 401, FALSE, FALSE)
  /\ UNCHANGED << queryResp, escaped, startVars, live, secretCfg, fileWriter, files, jobs, products, activeJobs, pc, emitted,
                  exitCode, parsed, ingestRuns, ops >>

\* the store applies the handler's update and the handler answers
CallbackApplied(q) ==
  /\ BagIn(q, pool)
  /\ jobs' = FindOneAndUpdate(jobs, q.jobId, CallbackUpdate(q.kind, q.payload))
  /\ pool' = pool (-) SetToBag({q})
  /\ resp' = Response(q.kind, q.jobId, q.secret, 200, TRUE, q.jobId \in DOMAIN jobs)
  /\ UNCHANGED << queryResp, escaped, startVars, live, secretCfg, fileWriter, files, products, activeJobs, pc, emitted,
                  exitCode, parsed, ingestRuns, ops, received >>

\* the store rejects the handler's update: the handler's catch answers
\* 500 with success false and nothing is stored
CallbackFails(q) ==
  /\ BagIn(q, pool)
  /\ pool' = pool (-) SetToBag({q})
  /\ resp' = Response(q.kind, q.jobId, q.secret, 500, FALSE, q.jobId \in DOMAIN jobs)
  /\ UNCHANGED << queryResp, escaped, startVars, live, secretCfg, fileWriter, files, jobs, products, activeJobs, pc,
                  emitted, exitCode, parsed, ingestRuns, ops, received >>

(* --------------------------- specification ----------------------------- *)
\* one job, its worker's output and exit, and authorized callbacks
OneJob == {"job_1"}
OneName == {<<"A", " ", " ", "b">>}
GoodRow == [asin |-> "B1", title |-> "t1", success |-> "yes", page |-> "2", timestamp |-> ""]
SmallCsv == {<< >>, <<GoodRow>>}
GoodSecret == {"s3cret"}

Next ==
  \/ \E j \in OneJob \ DOMAIN jobs, productName \in OneName : StartJob(j, Body(productName))
  \/ \E j \in OneJob, spawnOk \in BOOLEAN : Spawn(j, spawnOk)
  \/ \E j \in OneJob, stream \in {"stdout", "stderr"} : EmitChunk(j, stream)
  \/ \E op \in ops : ChunkApplied(op)
  \/ \E j \in OneJob, rows \in SmallCsv : WorkerWriteCsv(j, rows)
  \/ \E j \in OneJob, code \in ExitCodes, dirExists \in BOOLEAN : Close(j, code, dirExists)
  \/ \E j \in OneJob, readOk \in BOOLEAN : ParseEnd(j, readOk)
  \/ \E j \in OneJob : InsertDone(j)
  \/ \E j \in OneJob : \E S \in SUBSET DOMAIN parsed[j] : InsertThrows(j, S)
  \/ \E op \in ops : FinalApplied(op)
  \/ \E kind \in CallbackKinds, jid \in OneJob \cup {UnknownId}, secret \in GoodSecret :
       \E payload \in CallbackPayloads(kind) :
         CallbackReceived(kind, jid, secret, payload)
  \/ \E q \in BagToSet(pool) : CallbackApplied(q)

Spec == Init /\ [][Next]_vars

\* one job without ingestion, and callbacks with every x-scraper-secret value
NextAuth ==
  \/ \E j \in OneJob \ DOMAIN jobs, productName \in OneName : StartJob(j, Body(productName))
  \/ \E j \in OneJob, spawnOk \in BOOLEAN : Spawn(j, spawnOk)
  \/ \E j \in OneJob, code \in ExitCodes, dirExists \in BOOLEAN : Close(j, code, dirExists)
  \/ \E op \in ops : FinalApplied(op)
  \/ \E kind \in CallbackKinds, jid \in OneJob \cup {UnknownId}, secret \in HeaderSecrets :
       \E payload \in CallbackPayloads(kind) :
         CallbackReceived(kind, jid, secret, payload)
  \/ \E q \in BagToSet(pool) : CallbackApplied(q)

SpecAuth == Init /\ [][NextAuth]_vars

\* processScrapingResults is exported: a caller runs it again for a job whose
\* earlier run has finished
MaxIngestRuns == 2

Reingest(j, dirExists) ==
  /\ pc[j] = "done"
  /\ IsZeroExit(exitCode[j])
  /\ ingestRuns[j] < MaxIngestRuns
  /\ dirExists \in DirStates
  /\ IngestBegin(j, dirExists)
  /\ UNCHANGED << queryResp, escaped, startVars, live, secretCfg, fileWriter, files, jobs, products, activeJobs, emitted,
                  exitCode, parsed, received, pool, resp >>

\* one job, every CSV content, and repeated ingestion
NextRerun ==
  \/ \E j \in OneJob \ DOMAIN jobs, productName \in ProductNames : StartJob(j, Body(productName))
  \/ \E j \in OneJob, spawnOk \in BOOLEAN : Spawn(j, spawnOk)
  \/ \E j \in OneJob, rows \in CsvContents : WorkerWriteCsv(j, rows)
  \/ \E j \in OneJob, code \in ExitCodes, dirExists \in BOOLEAN : Close(j, code, dirExists)
  \/ \E j \in OneJob, readOk \in BOOLEAN : ParseEnd(j, readOk)
  \/ \E j \in OneJob : InsertDone(j)
  \/ \E j \in OneJob : \E S \in SUBSET DOMAIN parsed[j] : InsertThrows(j, S)
  \/ \E op \in ops : FinalApplied(op)
  \/ \E j \in OneJob, dirExists \in BOOLEAN : Reingest(j, dirExists)

SpecRerun == Init /\ [][NextRerun]_vars

\* every request body and every generated jobId, a stored one included, and
\* repeated calls of the exported startScrapingProcess; no CSV file is written
NextStart ==
  \/ \E j \in JobIds, body \in StartBodies : StartJob(j, body)
  \/ \E j \in JobIds, spawnOk \in BOOLEAN : Spawn(j, spawnOk)
  \/ \E j \in JobIds : Respawn(j)
  \/ \E j \in JobIds, code \in {"0", "1"} : Close(j, code, TRUE)
  \/ \E op \in ops : FinalApplied(op)

SpecStart == Init /\ [][NextStart]_vars

\* one job and status callbacks whose body carries any status value or none
NextAnyStatus ==
  \/ \E j \in OneJob \ DOMAIN jobs, productName \in OneName : StartJob(j, Body(productName))
  \/ \E j \in OneJob, spawnOk \in BOOLEAN : Spawn(j, spawnOk)
  \/ \E j \in OneJob, code \in ExitCodes, dirExists \in BOOLEAN : Close(j, code, dirExists)
  \/ \E op \in ops : FinalApplied(op)
  \/ \E jid \in OneJob, secret \in GoodSecret, payload \in StatusInputs :
       CallbackReceived("status", jid, secret, payload)
  \/ \E q \in BagToSet(pool) : CallbackApplied(q)

SpecAnyStatus == Init /\ [][NextAnyStatus]_vars

\* two jobs without output, and queries for stored and unknown jobIds
NextQuery ==
  \/ \E j \in JobIds \ DOMAIN jobs, productName \in OneName : StartJob(j, Body(productName))
  \/ \E j \in JobIds, spawnOk \in BOOLEAN : Spawn(j, spawnOk)
  \/ \E j \in JobIds, code \in ExitCodes : Close(j, code, TRUE)
  \/ \E op \in ops : FinalApplied(op)
  \/ \E requested \in CallbackIds : GetJobById(requested)

SpecQuery == Init /\ [][NextQuery]_vars

\* two jobs, concurrent or successive, whose product names give the same
\* file name, each with its worker's output, exit and ingestion
NextTwoJobs ==
  \/ \E j \in JobIds \ DOMAIN jobs, productName \in ProductNames : StartJob(j, Body(productName))
  \/ \E j \in JobIds, spawnOk \in BOOLEAN : Spawn(j, spawnOk)
  \/ \E j \in JobIds, rows \in SmallCsv : WorkerWriteCsv(j, rows)
  \/ \E j \in JobIds, code \in ExitCodes, dirExists \in BOOLEAN : Close(j, code, dirExists)
  \/ \E j \in JobIds, readOk \in BOOLEAN : ParseEnd(j, readOk)
  \/ \E j \in JobIds : InsertDone(j)
  \/ \E op \in ops : FinalApplied(op)

SpecTwoJobs == Init /\ [][NextTwoJobs]_vars

\* two jobs without output: chunks of their workers, their exits, the
\* finalization of their ingestion and status callbacks for either
NextIsolation ==
  \/ \E j \in JobIds \ DOMAIN jobs, productName \in OneName : StartJob(j, Body(productName))
  \/ \E j \in JobIds : Spawn(j, TRUE)
  \/ \E j \in JobIds : EmitChunk(j, "stdout")
  \/ \E op \in ops : ChunkApplied(op)
  \/ \E j \in JobIds, code \in {"0", "1"} : Close(j, code, TRUE)
  \/ \E op \in ops : FinalApplied(op)
  \/ \E jid \in JobIds, secret \in GoodSecret :
       CallbackReceived("status", jid, secret, "stopped")
  \/ \E q \in BagToSet(pool) : CallbackApplied(q)

SpecIsolation == Init /\ [][NextIsolation]_vars

\* one job whose chunk and log-callback appends the store may reject
NextStoreFail ==
  \/ \E j \in OneJob \ DOMAIN jobs, productName \in OneName : StartJob(j, Body(productName))
  \/ \E j \in OneJob : Spawn(j, TRUE)
  \/ \E j \in OneJob, stream \in {"stdout", "stderr"} : EmitChunk(j, stream)
  \/ \E op \in ops : ChunkApplied(op)
  \/ \E op \in ops : ChunkFails(op)
  \/ \E j \in OneJob, code \in {"0", "1"} : Close(j, code, TRUE)
  \/ \E op \in ops : FinalApplied(op)
  \/ \E jid \in OneJob, secret \in GoodSecret : CallbackReceived("logs", jid, secret, "l1")
  \/ \E q \in BagToSet(pool) : CallbackApplied(q)
  \/ \E q \in BagToSet(pool) : CallbackFails(q)

SpecStoreFail == Init /\ [][NextStoreFail]_vars

\* one job, every CSV content, and a Product collection that may refuse
\* documents as duplicates
NextDupKey ==
  \/ \E j \in OneJob \ DOMAIN jobs, productName \in OneName : StartJob(j, Body(productName))
  \/ \E j \in OneJob : Spawn(j, TRUE)
  \/ \E j \in OneJob, rows \in CsvContents : WorkerWriteCsv(j, rows)
  \/ \E j \in OneJob : Close(j, "0", TRUE)
  \/ \E j \in OneJob : ParseEnd(j, TRUE)
  \/ \E j \in OneJob : InsertDone(j)
  \/ \E j \in OneJob : \E D \in SUBSET DOMAIN parsed[j] : InsertDuplicates(j, D)
  \/ \E op \in ops : FinalApplied(op)

SpecDupKey == Init /\ [][NextDupKey]_vars

\* startJob calls whose "running" update the store may reject
NextLaunch ==
  \/ \E j \in JobIds, body \in StartBodies : StartJob(j, body)
  \/ \E j \in JobIds, spawnOk \in BOOLEAN : Spawn(j, spawnOk)
  \/ \E j \in JobIds, storeBack \in BOOLEAN : RunningUpdateFails(j, storeBack)
  \/ \E j \in JobIds, code \in {"0", "1"} : Close(j, code, TRUE)
  \/ \E op \in ops : FinalApplied(op)

SpecLaunch == Init /\ [][NextLaunch]_vars

\* rows that differ in their page_number cell only: none, 0, 1, 2 and text
PageRows ==
  { [asin |-> "B1", title |-> "t1", success |-> "yes", page |-> pg, timestamp |-> ""] :
      pg \in {"", "0", "1", "2", "x"} }

\* one job ingesting a file of such rows
NextPages ==
  \/ \E j \in OneJob \ DOMAIN jobs, productName \in OneName : StartJob(j, Body(productName))
  \/ \E j \in OneJob : Spawn(j, TRUE)
  \/ \E j \in OneJob, rows \in SeqsUpTo(PageRows, MaxRows) : WorkerWriteCsv(j, rows)
  \/ \E j \in OneJob : Close(j, "0", TRUE)
  \/ \E j \in OneJob : ParseEnd(j, TRUE)
  \/ \E j \in OneJob : InsertDone(j)
  \/ \E op \in ops : FinalApplied(op)

SpecPages == Init /\ [][NextPages]_vars

(* ------------------------------ claims --------------------------------- *)
\* number of Product documents stored for jobId j
ProductsOfJob(j) ==
  LET S == {p \in BagToSet(products) : p.jobId = j}
      sum[T \in SUBSET S] ==
        IF T = {} THEN 0
        ELSE LET p == CHOOSE x \in T : TRUE
             IN CopiesIn(p, products) + sum[T \ {p}]
  IN sum[S]

\* number of Product documents stored for jobId j with the given asin
ProductsOfKey(j, asin) ==
  LET S == {p \in BagToSet(products) : p.jobId = j /\ p.asin = asin}
      sum[T \in SUBSET S] ==
        IF T = {} THEN 0
        ELSE LET p == CHOOSE x \in T : TRUE
             IN CopiesIn(p, products) + sum[T \ {p}]
  IN sum[S]

\* C1: once a job's stored status is completed, failed or stopped, no step
\* (status callback, close event, spawn hand-off) changes it.
C1_TerminalStatusFrozen ==
  [][\A j \in DOMAIN jobs :
       jobs[j].status \in Terminal => jobs'[j].status = jobs[j].status]_vars

LegalTransitions ==
  { <<"pending", "running">>, <<"running", "completed">>, <<"running", "failed">>,
    <<"pending", "failed">>, <<"running", "stopped">> }

\* C2: every change of a job's stored status between two consecutive states
\* is one of the five legal transitions.
C2_OnlyLegalTransitions ==
  [][\A j \in DOMAIN jobs :
       jobs'[j].status # jobs[j].status =>
         <<jobs[j].status, jobs'[j].status>> \in LegalTransitions]_vars

\* C3: once the handling of a worker's exit has run to its end, the job's
\* stored status is completed or failed (never running), and a failed job has
\* an error.
C3_ExitedJobSettled ==
  \A j \in DOMAIN jobs :
    (exitCode[j] # "none" /\ pc[j] = "done") =>
      /\ jobs[j].status \in {"completed", "failed"}
      /\ jobs[j].status = "failed" => jobs[j].error # NoError

\* C4: for a worker whose exit code is not 0 (a signal included), ingestion
\* is never run and no Product of that jobId is stored; the update that ends
\* its supervision stores status failed and an error holding the exit code,
\* and that error stays.
C4_NonZeroExitFails ==
  /\ [](\A j \in JobIds :
          exitCode[j] \notin {"none", "0"} =>
            /\ ingestRuns[j] = 0
            /\ ProductsOfJob(j) = 0
            /\ pc[j] = "done" => jobs[j].error = ExitCodeError(exitCode[j]))
  /\ [][\A j \in JobIds :
          (exitCode[j] \notin {"none", "0"} /\ pc[j] = "finalizing" /\ pc'[j] = "done") =>
            /\ jobs'[j].status = "failed"
            /\ jobs'[j].error.detail = exitCode[j]]_vars

\* C4 witness: a worker that wrote a CSV row exited with code 1 and its job is
\* failed with that code
C4_Witness ==
  \E j \in DOMAIN jobs :
    /\ exitCode[j] = "1" /\ pc[j] = "done"
    /\ jobs[j].status = "failed" /\ jobs[j].error = ExitCodeError("1")
    /\ SafeName(jobs[j].productName) \in DOMAIN files
    /\ files[SafeName(jobs[j].productName)] # << >>

\* how many of the updates of job j that a step applies push the line
AppliedPushes(j, line, ops1, ops2, pool1, pool2) ==
  Cardinality({op \in ops1 \ ops2 : op.job = j /\ op.u.hasPush /\ op.u.push = line})
    + LET gone == {q \in BagToSet(pool1) :
                     /\ q.jobId = j
                     /\ CallbackUpdate(q.kind, q.payload).push = line
                     /\ CopiesIn(q, pool2) < CopiesIn(q, pool1)}
      IN IF gone = {} THEN 0 ELSE 1

AllLines(j, logs1, logs2) ==
  Range(logs1) \cup Range(logs2)
    \cup {op.u.push : op \in {o \in ops : o.job = j}}
    \cup {CallbackUpdate(q.kind, q.payload).push : q \in {r \in BagToSet(pool) : r.jobId = j}}

\* C5: whatever events of a job are in flight together, every step stores
\* the line of each update it applies exactly once more and changes the
\* number of copies of no other line: no line is lost or duplicated.
C5_AppliedLinesStoredOnce ==
  [][\A j \in DOMAIN jobs :
       \A line \in AllLines(j, jobs[j].logs, jobs'[j].logs) :
         Count(jobs'[j].logs, line)
           = Count(jobs[j].logs, line) + AppliedPushes(j, line, ops, ops', pool, pool')]_vars

\* C5 witness: two identical log callbacks of one job are both stored while
\* the update of a chunk of its worker is still in flight
C5_Witness ==
  \E j \in DOMAIN jobs :
    /\ Count(jobs[j].logs, LogLine("l1")) = 2
    /\ \E op \in ops : op.job = j /\ op.kind = "chunk"

\* C6: logs only grows at its end: every step leaves the stored entries of
\* every job in place, as a prefix of the new logs.
C6_LogsAppendOnly ==
  [][\A j \in DOMAIN jobs :
       j \in DOMAIN jobs' /\ IsPrefix(jobs[j].logs, jobs'[j].logs)]_vars

\* C6 witness: logs written by the hand-off, a worker chunk, a callback and
\* the final update, in that order
C6_Witness ==
  \E j \in DOMAIN jobs :
    /\ Len(jobs[j].logs) >= 4
    /\ jobs[j].logs[1] = JobStartedLine
    /\ jobs[j].logs[2].k \in {"[PYOUT]", "[PYERR]"}
    /\ jobs[j].logs[3].k \in {"STATUS:", "PROGRESS:", "LOG:"}
    /\ jobs[j].logs[4].k \in {"Scraping completed", "Failed with exit code"}

\* C7: a callback whose jobId matched no stored job is answered with
\* success false.
C7_UnknownJobRejected ==
  (resp.code # 0 /\ ~resp.matched) => ~resp.success

\* C8: the step that applies a callback whose jobId matches no stored job
\* leaves the job collection (no record changed, none created) and the
\* products unchanged.
C8_UnknownJobLeavesStore ==
  [][\A q \in BagToSet(pool) :
       (CopiesIn(q, pool') < CopiesIn(q, pool) /\ q.jobId \notin DOMAIN jobs) =>
         (jobs' = jobs /\ products' = products)]_vars

\* C8 witness: a callback for the unknown jobId was applied and answered
\* while a job is stored
C8_Witness ==
  /\ resp.code = 200 /\ resp.jobId = UnknownId /\ ~resp.matched
  /\ DOMAIN jobs # {}
  /\ UnknownId \notin DOMAIN jobs

\* C9: with a non-empty configured secret, a request whose header is missing
\* or different never has a store update issued or applied; the step that
\* receives any request leaves jobs and products unchanged, and a request
\* that issues no update is answered 401 with success false.
C9_BadSecretRejected ==
  /\ [](secretCfg # "" =>
          /\ \A q \in BagToSet(pool) : q.secret = secretCfg
          /\ resp.code = 200 => resp.secret = secretCfg)
  /\ [][received' # received =>
          /\ jobs' = jobs /\ products' = products
          /\ pool' = pool => (resp'.code = 401 /\ ~resp'.success)]_vars

\* C9 witness: a request without the header, for a stored job, was answered
\* 401 under a configured secret
C9_Witness ==
  /\ secretCfg # ""
  /\ resp.code = 401 /\ resp.secret = "missing"
  /\ resp.jobId \in DOMAIN jobs

\* C10: at most one Product is stored per (jobId, asin), however often the
\* pipeline has run.
C10_OneProductPerKey ==
  \A p \in BagToSet(products) : ProductsOfKey(p.jobId, p.asin) <= 1

\* C11: the step in which a run's bulk insert returns and the completing
\* update is issued reports, as results.totalScraped, the number of Product
\* documents that the insert of this run added to the collection.
C11_ReportsInsertedCount ==
  [][\A j \in JobIds : \A op \in ops' \ ops :
       (op.job = j /\ pc[j] = "inserting" /\ op.u.status = "completed") =>
         op.u.results.totalScraped = ProductsOfJob(j)' - ProductsOfJob(j)]_vars

\* the rows of a file whose success flag is accepted and that carry both an
\* asin and a title, in file order
AcceptedRows(rows) ==
  SelectSeq(rows, LAMBDA r : ScrapedSuccess(r) /\ r.asin # "" /\ r.title # "")

\* the CSV file of job j
CsvOf(j) == files[SafeName(jobs[j].productName)]

\* C12: no stored Product lacks asin or title; a parse that ends without a
\* read error yields exactly the accepted rows of the file, in order, whatever
\* rows without asin or title stand before or after them; an insert that the
\* server does not refuse persists every one of them that validates, and the
\* completing update counts the accepted rows only.
C12_MalformedRowSkipped ==
  /\ [](\A p \in BagToSet(products) : p.asin # "" /\ p.title # "")
  /\ [][\A j \in DOMAIN jobs :
          /\ ( /\ pc[j] = "parsing" /\ pc'[j] # "parsing"
               /\ \A op \in ops' \ ops : op.u.status = "completed" ) =>
               LET acc == AcceptedRows(CsvOf(j))
               IN /\ Len(parsed'[j]) = Len(acc)
                  /\ \A k \in DOMAIN acc :
                       /\ parsed'[j][k].asin = acc[k].asin
                       /\ parsed'[j][k].title = acc[k].title
                  /\ \A op \in ops' \ ops : op.u.results.totalScraped = Len(acc)
          /\ ( /\ pc[j] = "inserting" /\ pc'[j] = "finalizing"
               /\ \A op \in ops' \ ops : op.u.error # IngestError("insert error") ) =>
               /\ \A k \in ValidIndexes(parsed[j]) :
                    CopiesIn(parsed[j][k], products') > CopiesIn(parsed[j][k], products)
               /\ \A op \in ops' \ ops :
                    op.u.status = "completed" =>
                      op.u.results.totalScraped = Len(AcceptedRows(CsvOf(j)))]_vars

\* C12 witness: a file with a row without title ahead of an accepted row was
\* ingested: one Product is stored and the job reports one
C12_Witness ==
  \E j \in DOMAIN jobs :
    /\ pc[j] = "done" /\ jobs[j].status = "completed"
    /\ SafeName(jobs[j].productName) \in DOMAIN files
    /\ Len(CsvOf(j)) = 2
    /\ CsvOf(j)[1].title = "" /\ ScrapedSuccess(CsvOf(j)[1])
    /\ CsvOf(j)[2].asin = "B1"
    /\ jobs[j].results.totalScraped = 1
    /\ ProductsOfJob(j) = 1

\* the rows ingestion reads for job j: none when the file does not exist
RowsOf(j) ==
  IF SafeName(jobs[j].productName) \in DOMAIN files THEN CsvOf(j) ELSE << >>

\* the largest page number of the rows, 0 for no rows
LargestPage(rows) ==
  IF rows = << >> THEN 0
  ELSE CHOOSE m \in {PageNumber(rows[k]) : k \in DOMAIN rows} :
         \A k \in DOMAIN rows : PageNumber(rows[k]) <= m

C14_DistinctJobIds ==
  /\ [](\A j \in JobIds : returned[j] <= 1)
  /\ [][startCalls' # startCalls =>
          /\ startResp'.success =>
               /\ startResp'.jobId \notin DOMAIN jobs
               /\ startResp'.jobId \in DOMAIN jobs'
               /\ jobs'[startResp'.jobId].status = "pending"
               /\ startResp'.status = "pending"
               /\ \A k \in DOMAIN jobs : jobs'[k] = jobs[k]
          /\ ~startResp'.success =>
               /\ startResp'.code >= 400
               /\ jobs' = jobs /\ ops' = ops /\ pc' = pc
               /\ live' = live /\ activeJobs' = activeJobs]_vars

\* C14 witness: two calls succeeded with different jobIds and a third call,
\* with a valid product name, generated a stored jobId and was answered 500
C14_Witness ==
  /\ \A j \in JobIds : returned[j] = 1 /\ j \in DOMAIN jobs
  /\ startResp.code = 500

\* a product name without any character other than whitespace
IsBlank(productName) == \A i \in DOMAIN productName : IsSpace(productName[i])

\* C15: no job record is ever created for a product name that is empty or
\* consists of whitespace only.
C15_BlankNameRejected ==
  \A j \in DOMAIN jobs : ~IsBlank(jobs[j].productName)

\* C16: no job ever has two child processes alive at once: a spawn call for a
\* jobId whose child is registered starts no second one.
C16_OneWorkerPerJob ==
  \A j \in JobIds : live[j] <= 1

\* C17: from the step that handles a worker's exit on, whatever the exit
\* code, the registry holds no entry for the jobId: not while the ingestion
\* run or the failure update of that exit is under way, and not after it.
C17_RegistryClearedOnExit ==
  \A j \in JobIds : exitCode[j] # "none" => j \notin activeJobs

\* C17 witness: a worker killed by a signal, its failure update issued and
\* not yet applied, the job still stored as running
C17_Witness ==
  \E j \in JobIds :
    /\ exitCode[j] = "null" /\ pc[j] = "finalizing"
    /\ Op(j, "final", 0, ExitFailedUpdate("null")) \in ops
    /\ j \notin activeJobs /\ live[j] = 0
    /\ jobs[j].status = "running"

\* C18: the step that applies a progress callback of a stored job leaves the
\* callback's payload as the job's progress snapshot.
C18_ProgressSnapshotReplaced ==
  [][\A q \in BagToSet(pool) :
       ( /\ CopiesIn(q, pool') < CopiesIn(q, pool)
         /\ q.kind = "progress"
         /\ q.jobId \in DOMAIN jobs ) =>
         jobs'[q.jobId].progress = q.payload]_vars

\* the updates of job j that a step applies
AppliedUpdates(j, ops1, ops2, pool1, pool2) ==
  {op.u : op \in {o \in ops1 \ ops2 : o.job = j}}
    \cup {CallbackUpdate(q.kind, q.payload) :
            q \in {r \in BagToSet(pool1) :
                     r.jobId = j /\ CopiesIn(r, pool2) < CopiesIn(r, pool1)}}

\* C19: every step that moves a job into completed applies an update that
\* writes results; every update that writes results moves the job into
\* completed, and no step changes the results of a job otherwise.
C19_ResultsWrittenOnCompletion ==
  [][\A j \in DOMAIN jobs :
       /\ (jobs[j].status # "completed" /\ jobs'[j].status = "completed") =>
            \E u \in AppliedUpdates(j, ops, ops', pool, pool') : u.hasResults
       /\ (\E u \in AppliedUpdates(j, ops, ops', pool, pool') : u.hasResults) =>
            (jobs[j].status # "completed" /\ jobs'[j].status = "completed")
       /\ jobs'[j].results # jobs[j].results =>
            (jobs[j].status # "completed" /\ jobs'[j].status = "completed")]_vars

\* C20: the stored status of every job is one of the five values of the
\* enum, whatever status values callbacks carry.
C20_StatusWithinEnum ==
  \A j \in DOMAIN jobs : jobs[j].status \in Statuses

\* C21: every answer of a query for a stored jobId is sent, with code 200
\* for the record of that jobId, and every answer of a query for a jobId
\* that is not stored is a 404.
C21_QueryReturnsRecord ==
  [][queryResp' # queryResp =>
       IF queryResp'.requested \in DOMAIN jobs
       THEN queryResp'.sent /\ queryResp'.code = 200
       ELSE queryResp'.sent /\ queryResp'.code = 404]_vars

\* C22: for a job whose launch has failed (its start has ended and no child
\* ever exited), the update that stores status running together with the
\* line "Job started" was never applied, no registry entry exists, and once
\* the failure update is applied the error is that of the launch.
C22_LaunchFailureSkipsRunning ==
  \A j \in DOMAIN jobs :
    (exitCode[j] = "none" /\ pc[j] \in {"finalizing", "done"}) =>
      /\ JobStartedLine \notin Range(jobs[j].logs)
      /\ j \notin activeJobs
      /\ pc[j] = "done" => jobs[j].error = SpawnError("TypeError")

\* C23: for two chunks that a worker emitted on the same stream, the log
\* entry of the earlier one stands ahead of the entry of the later one
\* whenever both are stored.
C23_StreamOrderKept ==
  \A j \in DOMAIN jobs :
    \A n, m \in DOMAIN emitted[j] :
      (n < m /\ emitted[j][n] = emitted[j][m]) =>
        \A a, b \in DOMAIN jobs[j].logs :
          ( /\ jobs[j].logs[a] = ChunkUpdate(emitted[j][n], n).push
            /\ jobs[j].logs[b] = ChunkUpdate(emitted[j][m], m).push ) => a < b

\* C24: every step that stores Products with jobId j reads a file that the
\* worker of j wrote last.
C24_OwnOutputIngested ==
  [][\A j \in DOMAIN jobs :
       ProductsOfJob(j)' > ProductsOfJob(j) =>
         fileWriter[SafeName(jobs[j].productName)] = j]_vars

\* C25: the step that handles exit code 0 of a worker whose CSV file does not
\* exist issues the completing update with totalScraped 0 and pagesProcessed
\* 0 and stores no Product, whether the output directory exists or not.
C25_MissingFileCompletes ==
  [][\A j \in DOMAIN jobs :
       ( /\ exitCode[j] = "none" /\ exitCode'[j] = "0"
         /\ SafeName(jobs[j].productName) \notin DOMAIN files ) =>
         /\ products' = products
         /\ \E op \in ops' \ ops : op.job = j
         /\ \A op \in ops' \ ops :
              op.job = j =>
                /\ op.u.status = "completed"
                /\ op.u.results.totalScraped = 0
                /\ op.u.results.pagesProcessed = 0]_vars

\* C26: a store failure while a chunk or a callback log line is appended is
\* contained: the step drops the event, leaves the job's status and logs as
\* they were, and no rejection ever leaves a handler uncaught.
C26_StoreFailureContained ==
  /\ []~escaped
  /\ [][(escaped' # escaped \/ (resp'.code = 500 /\ resp' # resp)) =>
          jobs' = jobs]_vars

C28_InsertFailureKeepsPartial ==
  /\ [][\A j \in DOMAIN jobs : \A S \in SUBSET DOMAIN parsed[j] :
          InsertThrows(j, S) =>
            /\ \A k \in S :
                 CopiesIn(parsed[j][k], products') > CopiesIn(parsed[j][k], products)
            /\ \E op \in ops' \ ops :
                 /\ op.job = j
                 /\ op.u.hasStatus /\ op.u.status = "failed"
                 /\ op.u.hasError /\ op.u.error = IngestError("insert error")]_vars
  /\ [][\A op \in ops \ ops' :
          (op.kind = "final" /\ op.u.hasPush
             /\ op.u.push = IngestErrorLine("insert error")) =>
            /\ jobs'[op.job].status = "failed"
            /\ jobs'[op.job].error = IngestError("insert error")
            /\ products' = products]_vars
  /\ [][\A p \in BagToSet(products) :
          CopiesIn(p, products') >= CopiesIn(p, products)]_vars

\* C28 witness: a job is failed with the insert error while a Product of its
\* interrupted insert is stored
C28_Witness ==
  \E j \in DOMAIN jobs :
    /\ pc[j] = "done"
    /\ jobs[j].status = "failed"
    /\ jobs[j].error = IngestError("insert error")
    /\ ingestRuns[j] = 1
    /\ ProductsOfJob(j) = 1

\* the jobs a step carries an event of: the job of an update the store takes
\* or refuses, of a callback answered, of a chunk emitted, of a worker
\* spawned or exited, and the job created
EventJobs ==
  {op.job : op \in ops \ ops'}
    \cup {q.jobId : q \in {r \in BagToSet(pool) : CopiesIn(r, pool') < CopiesIn(r, pool)}}
    \cup {j \in JobIds : \/ emitted'[j] # emitted[j]
                         \/ live'[j] # live[j]
                         \/ exitCode'[j] # exitCode[j]}
    \cup (DOMAIN jobs' \ DOMAIN jobs)

\* C29: every step carries events of at most one job, and the record (status,
\* progress, results, logs, error) and the registry entry of every other job
\* are the same after the step as before it.
C29_OtherJobsUntouched ==
  [][/\ Cardinality(EventJobs) <= 1
     /\ \A j \in DOMAIN jobs :
          j \notin EventJobs =>
            /\ jobs'[j] = jobs[j]
            /\ (j \in activeJobs') = (j \in activeJobs)]_vars

\* C29 witness: both jobs have a registered worker and one log line of a
\* chunk each, one of them has been stopped by a callback and the other has
\* exited with a failure, each keeping its own status
C29_Witness ==
  /\ DOMAIN jobs = JobIds
  /\ \E a, b \in JobIds :
       /\ a # b
       /\ jobs[a].status = "stopped" /\ a \in activeJobs
       /\ jobs[b].status = "failed" /\ b \notin activeJobs /\ pc[b] = "done"
       /\ Len(jobs[a].logs) >= 2 /\ Len(jobs[b].logs) >= 2

\* C30: a job whose stored status is completed or failed has no process
\* handle in the registry.
C30_FinishedJobUnregistered ==
  \A j \in DOMAIN jobs :
    jobs[j].status \in {"completed", "failed"} => j \notin activeJobs

\* C31: a successful startJob call creates exactly one job record, and the
\* launch it begins makes exactly one spawn attempt: when the job leaves the
\* launch, either one child has been spawned for it or the failure of the
\* spawn itself is what the supervisor reports.
C31_OneRecordOneSpawn ==
  /\ [][(startCalls' # startCalls /\ startResp'.success) =>
          Cardinality(DOMAIN jobs') = Cardinality(DOMAIN jobs) + 1]_vars
  /\ [][\A j \in DOMAIN jobs :
          (pc[j] = "starting" /\ pc'[j] # "starting") =>
            \/ live'[j] = live[j] + 1
            \/ Op(j, "final", 0, SpawnFailedUpdate("TypeError")) \in ops' \ ops]_vars

C33_OnlySuccessfulRowsStored ==
  [][\A j \in DOMAIN jobs :
       /\ parsed'[j] # parsed[j] =>
            /\ exitCode[j] = "0"
            /\ Len(parsed'[j]) <=
                 Cardinality({k \in DOMAIN CsvOf(j) :
                                CsvOf(j)[k].success \in {"yes", "Yes", "YES", "1"}})
            /\ \A i \in DOMAIN parsed'[j] :
                 \E k \in DOMAIN CsvOf(j) :
                   /\ CsvOf(j)[k].success \in {"yes", "Yes", "YES", "1"}
                   /\ CsvOf(j)[k].asin = parsed'[j][i].asin
                   /\ CsvOf(j)[k].title = parsed'[j][i].title
       /\ \A p \in BagToSet(products') :
            (p.jobId = j /\ CopiesIn(p, products') > CopiesIn(p, products)) =>
              /\ exitCode[j] = "0"
              /\ \E i \in DOMAIN parsed[j] : parsed[j][i] = p
       /\ \A op \in ops' \ ops :
            (op.job = j /\ op.u.hasResults) =>
              op.u.results.totalScraped <= Len(parsed'[j])]_vars

\* C33 witness: a file with a row marked NO ahead of a row marked YES was
\* ingested: the job reports one row and one Product is stored, the YES one
C33_Witness ==
  \E j \in DOMAIN jobs :
    /\ pc[j] = "done" /\ jobs[j].status = "completed"
    /\ Len(RowsOf(j)) = 2
    /\ RowsOf(j)[1].success = "NO" /\ RowsOf(j)[1].asin = "B3"
    /\ RowsOf(j)[2].success = "YES"
    /\ jobs[j].results.totalScraped = 1
    /\ ProductsOfJob(j) = 1
    /\ \A p \in BagToSet(products) : p.asin = RowsOf(j)[2].asin

\* C34: in every state a job's completedAt is set exactly when its stored
\* status is completed or failed.
C34_CompletedAtWithTerminalStatus ==
  \A j \in DOMAIN jobs :
    jobs[j].completedAt <=> jobs[j].status \in {"completed", "failed"}

\* C35: in every state a job whose stored status is failed has an error
\* description.
C35_FailedJobHasError ==
  \A j \in DOMAIN jobs : jobs[j].status = "failed" => jobs[j].error # NoError

\* C36: in every state, no entry of a stdout or stderr chunk stands in a
\* job's logs behind the supervisor's final line ("Scraping completed" or
\* "Failed with exit code").
C36_NoChunkAfterFinalLine ==
  \A j \in DOMAIN jobs :
    \A a, b \in DOMAIN jobs[j].logs :
      ( /\ jobs[j].logs[a].k \in {"Scraping completed", "Failed with exit code"}
        /\ jobs[j].logs[b].k \in {"[PYOUT]", "[PYERR]"} ) => b < a

\* the progress and append-log callbacks that a step answers
AnsweredCallbacks(kinds) ==
  {q \in BagToSet(pool) : q.kind \in kinds /\ CopiesIn(q, pool') < CopiesIn(q, pool)}

\* C37: a step that answers a progress or an append-log callback leaves the
\* status, error, completedAt and results of every job as they were; a step
\* that answers an append-log callback of a stored job changes nothing in the
\* store but that job's logs, which gain the callback's line at their end.
C37_LogAndProgressFrame ==
  [][/\ AnsweredCallbacks({"progress", "logs"}) # {} =>
          /\ DOMAIN jobs' = DOMAIN jobs
          /\ \A j \in DOMAIN jobs :
               /\ jobs'[j].status = jobs[j].status
               /\ jobs'[j].error = jobs[j].error
               /\ jobs'[j].completedAt = jobs[j].completedAt
               /\ jobs'[j].results = jobs[j].results
     /\ \A q \in AnsweredCallbacks({"logs"}) :
          /\ products' = products
          /\ \A j \in DOMAIN jobs :
               jobs'[j] =
                 IF j = q.jobId
                 THEN [jobs[j] EXCEPT !.logs = Append(@, LogLine(q.payload))]
                 ELSE jobs[j]]_vars

\* C37 witness: a job completed by ingestion with one row has since taken a
\* progress and an append-log callback, whose lines stand behind the
\* completion line, and is still completed with its results
C37_Witness ==
  \E j \in DOMAIN jobs :
    /\ jobs[j].status = "completed" /\ jobs[j].completedAt
    /\ jobs[j].results.totalScraped = 1
    /\ \E a, b, c \in DOMAIN jobs[j].logs :
         /\ a < b /\ a < c
         /\ jobs[j].logs[a] = CompletedLine(1, 2)
         /\ jobs[j].logs[b] = ProgressLine("p1")
         /\ jobs[j].logs[c] = LogLine("l1")

\* C38: every stored Product has a pageNumber of at least 1, and a job
\* completed by ingestion with at least one accepted row has a pagesProcessed
\* of at least 1.
C38_PageNumberAtLeastOne ==
  /\ \A p \in BagToSet(products) : p.pageNumber >= 1
  /\ \A j \in DOMAIN jobs :
       (pc[j] = "done" /\ jobs[j].status = "completed"
          /\ jobs[j].results.totalScraped >= 1) =>
         jobs[j].results.pagesProcessed >= 1

=============================================================================
